---------------------------- MODULE Spec2Model ----------------------------
(***************************************************************************)
(* A model of the Rope class of src/Rope.h: a string kept in pieces in the *)
(* leaves of a binary tree of shared nodes.                                *)
(*                                                                         *)
(* heap is the sequence of the Node objects allocated so far; a            *)
(* shared_ptr<Node> is an index into it and NULL is the empty pointer.     *)
(* ropes holds the Rope objects a, b and c of the caller, each constructed *)
(* at most once (MAX_STR is const, so a Rope cannot be assigned to).       *)
(* res is the last call and what came of it: a dereference of an empty     *)
(* pointer ends the process ("segv"), a loop that comes back to a state it *)
(* was in never returns ("hang"), and nothing is called after either.      *)
(* written is a history variable: the bytes the caller has put into each   *)
(* rope, as the caller means them.                                         *)
(*                                                                         *)
(* Three callers are specified: Spec makes two ropes, merges and appends;  *)
(* SpecRead makes one rope from a buffer that holds a NUL, appends to it   *)
(* and reads it; SpecAppend makes one rope and appends spans to it.        *)
(***************************************************************************)
EXTENDS Integers, Sequences, FiniteSets

VARIABLES heap, ropes, written, res

vars == <<heap, ropes, written, res>>

--------------------------------------------------------------------------
(* Bounds of the model *)

\* largest max_size a rope is constructed with
MaxChunk == 2
\* Node objects the heap may hold in the program of three ropes
MaxNodes == 5
\* Node objects the heap may hold in the program that reads one rope
MaxNodesRead == 6
\* Node objects the heap may hold in the program that appends spans to one rope
MaxNodesAppend == 9

--------------------------------------------------------------------------
(* Values *)

\* the terminating byte strncpy stops at
NUL == 0
\* the empty shared_ptr
NULL == 0
\* Node::str of a node built from two children: nullptr
NullStr == << -1 >>

\* the caller's character buffer, the str argument of the constructor and of append
Text == <<1, NUL, 2>>

\* the buffer of a caller that fills its ropes with one byte
Fill == <<1, 1, 1>>

\* the values of a char the model tells apart
Bytes == {Text[i] : i \in 1..Len(Text)}

Handles == {"a", "b", "c"}

Max(x, y) == IF x >= y THEN x ELSE y

\* the bytes [begin, end) of the caller's buffer, as the caller means them
Span(str, begin, end) == [i \in 1..(end - begin) |-> str[begin + i]]

--------------------------------------------------------------------------
(* Node construction *)

\* std::strncpy(dst, str + begin, n): copies up to the first NUL and writes
\* NUL into the rest of the n bytes
strncpy(str, begin, n) ==
    [i \in 1..n |-> IF \E j \in 1..i : str[begin + j] = NUL
                    THEN NUL
                    ELSE str[begin + i]]

\* a Node(l, r) that stores the height of its tree in lvl
JoinLvlHeight(hp, l, r) == 1 + Max(hp[l].lvl, hp[r].lvl)

\* lvl(0) of Node(l, r)
JoinLvl(hp, l, r) == 0

\* Node(l, r): reads l->size and r->size
NodeOfChildren(hp, l, r) ==
    [size |-> hp[l].size + hp[r].size, lvl |-> JoinLvl(hp, l, r),
     str |-> NullStr, cap |-> 0, l |-> l, r |-> r]

\* Node(max_size, str, begin, end): the heap after the construction, the new
\* node last
RECURSIVE NodeOfSpan(_, _, _, _, _)
NodeOfSpan(hp, max_size, str, begin, end) ==
    LET size == end - begin IN
    IF size <= max_size
    THEN Append(hp, [size |-> size, lvl |-> 0,
                     str |-> strncpy(str, begin, size), cap |-> max_size,
                     l |-> NULL, r |-> NULL])
    ELSE LET middle == IF size <= 2 * max_size
                       THEN max_size
                       ELSE ((size \div max_size) \div 2) * max_size
             hl == NodeOfSpan(hp, max_size, str, begin, begin + middle)
             hr == NodeOfSpan(hl, max_size, str, begin + middle, end)
         IN Append(hr, [size |-> size,
                        lvl |-> Max(hr[Len(hl)].lvl, hr[Len(hr)].lvl),
                        str |-> NullStr, cap |-> 0,
                        l |-> Len(hl), r |-> Len(hr)])

\* the Node objects Node(max_size, str, begin, end) allocates
RECURSIVE NodesOfSpan(_, _)
NodesOfSpan(max_size, size) ==
    IF size <= max_size THEN 1
    ELSE LET middle == IF size <= 2 * max_size
                       THEN max_size
                       ELSE ((size \div max_size) \div 2) * max_size
         IN 1 + NodesOfSpan(max_size, middle) + NodesOfSpan(max_size, size - middle)

--------------------------------------------------------------------------
(* Flattening *)

\* Rope::string(node)
RECURSIVE string(_, _)
string(hp, node) ==
    IF hp[node].str # NullStr
    THEN SubSeq(hp[node].str, 1, hp[node].size)
    ELSE string(hp, hp[node].l) \o string(hp, hp[node].r)

--------------------------------------------------------------------------
(* Balancing *)

\* rotate_right(node): the heap and the node now at this place, or a
\* dereference of an empty pointer
rotate_right(hp, node) ==
    LET aux == hp[node].l
        h1 == [hp EXCEPT ![node].l = hp[aux].r]
        h2 == [h1 EXCEPT ![aux].r = node]
    IN IF h2[node].l = NULL \/ h2[node].r = NULL
       THEN [outcome |-> "segv", heap |-> hp, root |-> node]
       ELSE LET h3 == [h2 EXCEPT
                        ![node].size = h2[h2[node].l].size + h2[h2[node].r].size,
                        ![node].lvl = Max(h2[h2[node].l].size, h2[h2[node].r].size)]
            IN IF h3[aux].l = NULL \/ h3[aux].r = NULL
               THEN [outcome |-> "segv", heap |-> hp, root |-> node]
               ELSE [outcome |-> "ok", root |-> aux,
                     heap |-> [h3 EXCEPT
                        ![aux].size = h3[h3[aux].l].size + h3[h3[aux].r].size,
                        ![aux].lvl = Max(h3[h3[aux].l].size, h3[h3[aux].r].size)]]

\* rotate_left(node)
rotate_left(hp, node) ==
    LET aux == hp[node].r
        h1 == [hp EXCEPT ![node].r = hp[aux].l]
        h2 == [h1 EXCEPT ![aux].l = node]
    IN IF h2[node].l = NULL \/ h2[node].r = NULL
       THEN [outcome |-> "segv", heap |-> hp, root |-> node]
       ELSE LET h3 == [h2 EXCEPT
                        ![node].size = h2[h2[node].l].size + h2[h2[node].r].size,
                        ![node].lvl = Max(h2[h2[node].l].size, h2[h2[node].r].size)]
            IN IF h3[aux].l = NULL \/ h3[aux].r = NULL
               THEN [outcome |-> "segv", heap |-> hp, root |-> node]
               ELSE [outcome |-> "ok", root |-> aux,
                     heap |-> [h3 EXCEPT
                        ![aux].size = h3[h3[aux].l].size + h3[h3[aux].r].size,
                        ![aux].lvl = Max(h3[h3[aux].l].size, h3[h3[aux].r].size)]]

\* const int diff = root->l->lvl - root->r->lvl
Diff(hp, root) == hp[hp[root].l].lvl - hp[hp[root].r].lvl

\* the while (!is_balanced) loop of append(str, begin, end), from the state
\* (hp, root) with iters checks of diff and rots rotations done; seen holds
\* the states the loop head was in
RECURSIVE Balance(_, _, _, _, _)
Balance(hp, root, iters, rots, seen) ==
    LET diff == Diff(hp, root)
        rot == IF diff > 2 THEN rotate_right(hp, root) ELSE rotate_left(hp, root)
    IN IF diff <= 2 /\ diff >= -2
       THEN [outcome |-> "ok", heap |-> hp, root |-> root,
             iters |-> iters + 1, rots |-> rots]
       ELSE IF rot.outcome = "segv"
       THEN [outcome |-> "segv", heap |-> hp, root |-> root,
             iters |-> iters + 1, rots |-> rots + 1]
       ELSE IF <<rot.heap, rot.root>> \in seen
       THEN [outcome |-> "hang", heap |-> hp, root |-> root,
             iters |-> iters + 1, rots |-> rots + 1]
       ELSE Balance(rot.heap, rot.root, iters + 1, rots + 1,
                    seen \cup {<<rot.heap, rot.root>>})

--------------------------------------------------------------------------
(* Indexing *)

\* return curr->str[index]: the outcomes of the read
ReadStr(hp, curr, index) ==
    IF hp[curr].str = NullStr
    THEN {[outcome |-> "segv", chr |-> -1]}
    ELSE IF index < hp[curr].size
    THEN {[outcome |-> "ok", chr |-> hp[curr].str[index + 1]]}
    ELSE {[outcome |-> "ok", chr |-> c] : c \in Bytes}
         \cup (IF index < hp[curr].cap THEN {}
               ELSE {[outcome |-> "segv", chr |-> -1]})

\* operator[](index) from the loop head with index and curr; seen holds the
\* states the loop head was in
RECURSIVE At(_, _, _, _, _)
At(hp, root, index, curr, seen) ==
    IF root = NULL
    THEN {[outcome |-> "segv", chr |-> -1]}
    ELSE IF hp[root].size >= index
    THEN IF hp[root].l = NULL
         THEN {[outcome |-> "segv", chr |-> -1]}
         ELSE LET nxt == IF hp[hp[root].l].size >= index
                         THEN <<index, hp[root].l>>
                         ELSE <<index - hp[hp[root].l].size, hp[root].r>>
              IN IF nxt \in seen
                 THEN {[outcome |-> "hang", chr |-> -1]}
                 ELSE At(hp, root, nxt[1], nxt[2], seen \cup {nxt})
    ELSE ReadStr(hp, curr, index)

--------------------------------------------------------------------------
(* The Rope objects and their operations *)

\* a Rope the caller has declared and not constructed yet
NoRope == [made |-> FALSE, MAX_STR |-> 0, root |-> NULL]

\* what the caller has put into a rope: the bytes of the spans it was
\* constructed from and appended with, in order; spansOnly while the rope
\* was only constructed (empty or from a span) and appended with spans
NoWritten == [text |-> <<>>, spansOnly |-> TRUE]

\* the last call and what came of it
NoRes == [op |-> "none", h |-> "a", l |-> "a", r |-> "a", index |-> 0,
          outcome |-> "ok", chr |-> -1, num |-> -1, text |-> <<>>,
          iters |-> 0, rots |-> 0]

\* the process runs: no call has dereferenced an empty pointer or hangs
Alive == res.outcome \notin {"segv", "hang"}

Init ==
    /\ heap = <<>>
    /\ ropes = [h \in Handles |-> NoRope]
    /\ written = [h \in Handles |-> NoWritten]
    /\ res = NoRes

\* Rope h(max_size)
Rope(h, max_size) ==
    /\ Alive
    /\ ~ropes[h].made
    /\ ropes' = [ropes EXCEPT
                   ![h] = [made |-> TRUE, MAX_STR |-> max_size, root |-> NULL]]
    /\ res' = [NoRes EXCEPT !.op = "Rope", !.h = h]
    /\ UNCHANGED <<heap, written>>

\* Rope h(str, begin, end, max_size)
RopeOfSpan(h, str, begin, end, max_size) ==
    /\ Alive
    /\ ~ropes[h].made
    /\ heap' = NodeOfSpan(heap, max_size, str, begin, end)
    /\ ropes' = [ropes EXCEPT
                   ![h] = [made |-> TRUE, MAX_STR |-> max_size, root |-> Len(heap')]]
    /\ written' = [written EXCEPT ![h].text = Span(str, begin, end)]
    /\ res' = [NoRes EXCEPT !.op = "RopeOfSpan", !.h = h]

\* a merge that does not compare the MAX_STR of its operands
merge_accepts_all(lmax, rmax) == FALSE

\* l.MAX_STR != r.MAX_STR of merge
merge_rejects(lmax, rmax) == lmax # rmax

\* a merge that appends r to l and returns l
merge_into_left(rp, dst, l, r, node) ==
    [rp EXCEPT ![dst] = [made |-> TRUE, MAX_STR |-> rp[r].MAX_STR, root |-> node],
               ![l].root = node]

\* the Rope objects after merge(l, r) has returned its rope into dst
merge_result(rp, dst, l, r, node) ==
    [rp EXCEPT ![dst] = [made |-> TRUE, MAX_STR |-> rp[r].MAX_STR, root |-> node]]

\* Rope dst = Rope::merge(l, r)
merge(dst, l, r) ==
    /\ Alive
    /\ ~ropes[dst].made /\ ropes[l].made /\ ropes[r].made
    /\ IF merge_rejects(ropes[l].MAX_STR, ropes[r].MAX_STR)
       THEN /\ res' = [NoRes EXCEPT !.op = "merge", !.h = dst, !.l = l, !.r = r,
                                    !.outcome = "InvalidArgument"]
            /\ UNCHANGED <<heap, ropes, written>>
       ELSE IF ropes[l].root = NULL \/ ropes[r].root = NULL
       THEN /\ res' = [NoRes EXCEPT !.op = "merge", !.h = dst, !.l = l, !.r = r,
                                    !.outcome = "segv"]
            /\ UNCHANGED <<heap, ropes, written>>
       ELSE /\ heap' = Append(heap, NodeOfChildren(heap, ropes[l].root, ropes[r].root))
            /\ ropes' = merge_result(ropes, dst, l, r, Len(heap'))
            /\ written' = [written EXCEPT
                             ![dst] = [text |-> written[l].text \o written[r].text,
                                       spansOnly |-> FALSE]]
            /\ res' = [NoRes EXCEPT !.op = "merge", !.h = dst, !.l = l, !.r = r]

\* h.append(rope)
appendRope(h, rope) ==
    /\ Alive
    /\ ropes[h].made /\ ropes[rope].made
    /\ IF ropes[h].root = NULL \/ ropes[rope].root = NULL
       THEN /\ res' = [NoRes EXCEPT !.op = "appendRope", !.h = h, !.r = rope,
                                    !.outcome = "segv"]
            /\ UNCHANGED <<heap, ropes, written>>
       ELSE /\ heap' = Append(heap, NodeOfChildren(heap, ropes[h].root, ropes[rope].root))
            /\ ropes' = [ropes EXCEPT ![h].root = Len(heap')]
            /\ written' = [written EXCEPT
                             ![h] = [text |-> written[h].text \o written[rope].text,
                                     spansOnly |-> FALSE]]
            /\ res' = [NoRes EXCEPT !.op = "appendRope", !.h = h, !.r = rope]

\* h.append(str, begin, end)
appendSpan(h, str, begin, end) ==
    /\ Alive
    /\ ropes[h].made
    /\ LET withAux == NodeOfSpan(heap, ropes[h].MAX_STR, str, begin, end)
           aux == Len(withAux)
       IN IF ropes[h].root = NULL
          THEN /\ res' = [NoRes EXCEPT !.op = "appendSpan", !.h = h,
                                       !.outcome = "segv"]
               /\ UNCHANGED <<heap, ropes, written>>
          ELSE LET joined == Append(withAux, NodeOfChildren(withAux, ropes[h].root, aux))
                   bal == Balance(joined, Len(joined), 0, 0, {<<joined, Len(joined)>>})
               IN /\ heap' = bal.heap
                  /\ ropes' = [ropes EXCEPT ![h].root = bal.root]
                  /\ written' = [written EXCEPT
                                   ![h].text = written[h].text \o Span(str, begin, end)]
                  /\ res' = [NoRes EXCEPT !.op = "appendSpan", !.h = h,
                                          !.outcome = bal.outcome,
                                          !.iters = bal.iters, !.rots = bal.rots]

\* h.size()
size(h) ==
    /\ Alive
    /\ ropes[h].made
    /\ res' = IF ropes[h].root = NULL
              THEN [NoRes EXCEPT !.op = "size", !.h = h, !.outcome = "segv"]
              ELSE [NoRes EXCEPT !.op = "size", !.h = h,
                                 !.num = heap[ropes[h].root].size]
    /\ UNCHANGED <<heap, ropes, written>>

\* h.string()
toString(h) ==
    /\ Alive
    /\ ropes[h].made
    /\ res' = IF ropes[h].root = NULL
              THEN [NoRes EXCEPT !.op = "string", !.h = h, !.outcome = "segv"]
              ELSE [NoRes EXCEPT !.op = "string", !.h = h,
                                 !.text = string(heap, ropes[h].root)]
    /\ UNCHANGED <<heap, ropes, written>>

\* h[index]
charAt(h, index) ==
    /\ Alive
    /\ ropes[h].made
    /\ \E o \in At(heap, ropes[h].root, index, ropes[h].root,
                   {<<index, ropes[h].root>>}) :
          res' = [NoRes EXCEPT !.op = "charAt", !.h = h, !.index = index,
                               !.outcome = o.outcome, !.chr = o.chr]
    /\ UNCHANGED <<heap, ropes, written>>

\* the spans [begin, end) of a buffer of the caller
Spans(str) == {be \in (0..Len(str)) \X (0..Len(str)) : be[1] <= be[2]}

\* the indices the caller asks for: those of the content, its size and one more
Indices(h) ==
    0..((IF ropes[h].root = NULL THEN 0 ELSE heap[ropes[h].root].size) + 1)

\* the ropes the caller constructs, a before b; c is the rope merge returns
Constructed == {"a", "b"}

\* a is constructed before b, and both before any rope is appended to or
\* merged (the order decides only the places of the nodes in the heap)
InOrder(h) ==
    /\ h = "a" \/ ropes["a"].made
    /\ res.op \in {"none", "Rope", "RopeOfSpan"}

\* the heap has room for n more nodes out of max
Fits(max, n) == Len(heap) + n <= max

\* a program that makes two ropes, appends to them, merges two of them into
\* a third and appends to that
Next ==
    \/ \E h \in Constructed, max_size \in 1..MaxChunk :
          InOrder(h) /\ Rope(h, max_size)
    \/ \E h \in Constructed, be \in Spans(Fill), max_size \in 1..MaxChunk :
          /\ InOrder(h)
          /\ Fits(MaxNodes, NodesOfSpan(max_size, be[2] - be[1]))
          /\ RopeOfSpan(h, Fill, be[1], be[2], max_size)
    \/ \E l, r \in Handles : Fits(MaxNodes, 1) /\ merge("c", l, r)
    \/ \E h, rope \in Handles : Fits(MaxNodes, 1) /\ appendRope(h, rope)
    \/ \E h \in Handles, be \in Spans(Fill) :
          /\ ropes[h].made
          /\ Fits(MaxNodes, NodesOfSpan(ropes[h].MAX_STR, be[2] - be[1]) + 1)
          /\ appendSpan(h, Fill, be[1], be[2])

Spec == Init /\ [][Next]_vars

\* a program that makes one rope, appends to it and reads it
NextRead ==
    \/ \E max_size \in 1..MaxChunk : Rope("a", max_size)
    \/ \E be \in Spans(Text), max_size \in 1..MaxChunk :
          /\ Fits(MaxNodesRead, NodesOfSpan(max_size, be[2] - be[1]))
          /\ RopeOfSpan("a", Text, be[1], be[2], max_size)
    \/ Fits(MaxNodesRead, 1) /\ appendRope("a", "a")
    \/ \E be \in Spans(Text) :
          /\ ropes["a"].made
          /\ Fits(MaxNodesRead, NodesOfSpan(ropes["a"].MAX_STR, be[2] - be[1]) + 1)
          /\ appendSpan("a", Text, be[1], be[2])
    \/ size("a")
    \/ toString("a")
    \/ \E index \in Indices("a") : charAt("a", index)

SpecRead == Init /\ [][NextRead]_vars

\* a program that makes one rope and appends spans to it
NextAppend ==
    \/ \E max_size \in 1..MaxChunk : Rope("a", max_size)
    \/ \E be \in Spans(Fill), max_size \in 1..MaxChunk :
          /\ Fits(MaxNodesAppend, NodesOfSpan(max_size, be[2] - be[1]))
          /\ RopeOfSpan("a", Fill, be[1], be[2], max_size)
    \/ \E be \in Spans(Fill) :
          /\ ropes["a"].made
          /\ Fits(MaxNodesAppend, NodesOfSpan(ropes["a"].MAX_STR, be[2] - be[1]) + 1)
          /\ appendSpan("a", Fill, be[1], be[2])

SpecAppend == Init /\ [][NextAppend]_vars

--------------------------------------------------------------------------
(* What the claims speak of *)

\* the length of a rope's content; 0 for a rope with no root
SizeOf(h) == IF ropes[h].root = NULL THEN 0 ELSE heap[ropes[h].root].size

\* the depth of the tree under a node: 0 for a leaf
RECURSIVE Height(_, _)
Height(hp, node) ==
    IF hp[node].l = NULL THEN 0
    ELSE 1 + Max(Height(hp, hp[node].l), Height(hp, hp[node].r))

\* the leaves under a node
RECURSIVE Leaves(_, _)
Leaves(hp, node) ==
    IF hp[node].l = NULL THEN {node}
    ELSE Leaves(hp, hp[node].l) \cup Leaves(hp, hp[node].r)

Abs(x) == IF x >= 0 THEN x ELSE -x

Appends == {"appendRope", "appendSpan"}

--------------------------------------------------------------------------
(* The claims *)

\* C1: the rope built from a span of the buffer flattens back to the bytes
\* of that span, whatever the bytes and the max_size.
C1_RoundTrip ==
    \A h \in Handles :
        (res.op = "RopeOfSpan" /\ res.h = h)
            => string(heap, ropes[h].root) = written[h].text

\* C2: on a rope constructed empty or from a span, every append of a span
\* returns, and the rope then flattens to the bytes of the construction
\* followed by the bytes of the appended spans in call order.
C2_AppendsConcatenate ==
    \A h \in Handles :
        (ropes[h].made /\ written[h].spansOnly)
            => /\ (res.op = "appendSpan" /\ res.h = h) => res.outcome = "ok"
               /\ ropes[h].root # NULL
                     => string(heap, ropes[h].root) = written[h].text

\* C3: for every index below the size, operator[] returns a character, and
\* it is the character at that place of the flattened rope.
C3_IndexingConsistent ==
    (res.op = "charAt" /\ res.index < SizeOf(res.h))
        => /\ res.outcome = "ok"
           /\ res.chr = string(heap, ropes[res.h].root)[res.index + 1]

\* C4: for every index at or above the size, operator[] fails with
\* OutOfRange: it returns no character and reads nothing.
C4_OutOfRange ==
    (res.op = "charAt" /\ res.index >= SizeOf(res.h))
        => res.outcome = "OutOfRange"

\* C5: a merge of two ropes whose MAX_STR differ throws invalid_argument,
\* makes no rope, and leaves the heap and every rope as they were.
C5_MergeMismatch ==
    [][(res'.op = "merge" /\ ropes[res'.l].MAX_STR # ropes[res'.r].MAX_STR)
          => /\ res'.outcome = "InvalidArgument"
             /\ heap' = heap
             /\ ropes' = ropes
             /\ ~ropes'[res'.h].made]_vars

\* C5's case: a merge of ropes with different MAX_STR has just thrown.
C5_Witness ==
    /\ res.op = "merge" /\ res.outcome = "InvalidArgument"
    /\ ropes[res.l].MAX_STR # ropes[res.r].MAX_STR
    /\ ropes[res.l].root # NULL /\ ropes[res.r].root # NULL
    /\ ~ropes["c"].made

\* C6: a merge of two ropes with the same MAX_STR, an empty rope among them
\* or not, returns a rope whose size is the sum of their sizes.
C6_SizeAdditive ==
    (res.op = "merge" /\ ropes[res.l].MAX_STR = ropes[res.r].MAX_STR)
        => /\ res.outcome = "ok"
           /\ ropes[res.h].made
           /\ SizeOf(res.h) = SizeOf(res.l) + SizeOf(res.r)

\* C7: no call changes a node that exists, and no call changes the root,
\* the size or the flattened content of a rope other than the one it
\* appends to: the operands of a merge read the same after the merge and
\* after every append to the merged rope.
C7_OperandsUntouched ==
    [][/\ Len(heap') >= Len(heap)
       /\ \A n \in 1..Len(heap) : heap'[n] = heap[n]
       /\ \A h \in Handles :
             (ropes[h].made /\ ~(res'.op \in Appends /\ res'.h = h))
                => /\ ropes'[h] = ropes[h]
                   /\ ropes[h].root # NULL
                         => /\ string(heap', ropes'[h].root)
                                  = string(heap, ropes[h].root)
                            /\ heap'[ropes'[h].root].size
                                  = heap[ropes[h].root].size]_vars

\* C7's case: c was merged from a and b, a span was then appended to c, and
\* a and b still hold what the caller wrote into them.
C7_Witness ==
    /\ res.op = "appendSpan" /\ res.h = "c" /\ res.outcome = "ok"
    /\ ropes["a"].root # NULL /\ ropes["b"].root # NULL
    /\ written["a"].spansOnly /\ written["b"].spansOnly
    /\ heap[heap[ropes["c"].root].l].l = ropes["a"].root
    /\ heap[heap[ropes["c"].root].l].r = ropes["b"].root
    /\ string(heap, ropes["a"].root) = written["a"].text
    /\ string(heap, ropes["b"].root) = written["b"].text
    /\ SizeOf("c") > SizeOf("a") + SizeOf("b")

\* C8: after an append, the heights (true depths) of the two children of
\* the rope's root differ by at most 2.
C8_BalanceBound ==
    (res.op \in Appends /\ res.outcome = "ok")
        => LET root == ropes[res.h].root
           IN Abs(Height(heap, heap[root].l) - Height(heap, heap[root].r)) <= 2

\* C9: every leaf under the root of a rope holds at least one byte and at
\* most the rope's MAX_STR bytes.
C9_LeafBound ==
    \A h \in Handles :
        (ropes[h].made /\ ropes[h].root # NULL)
            => \A n \in Leaves(heap, ropes[h].root) :
                  0 < heap[n].size /\ heap[n].size <= ropes[h].MAX_STR

==========================================================================
